---- MODULE Spec2Model ----
(***************************************************************************)
(* lehash.py: digests of files computed by the kernel's AF_ALG "hash"      *)
(* transform.  The model follows one run of main(): Hash.__init__ (socket, *)
(* bind, prepare), Hash.open (accept ... finally close), the loop over the *)
(* file arguments and, per file, HashDescriptor.digest (sendfile, lseek,   *)
(* read loop).  Every system call is one step; each may succeed or be      *)
(* rejected by the OS.                                                     *)
(***************************************************************************)
EXTENDS Integers, Sequences, FiniteSets, TLC

\* Bounds of the model.
MaxFiles == 2
MaxFileLen == 2

\* The values of an input byte: contents are told apart by their length.
Byte == {0}

\* ---------------------------------------------------------------- catalog
AlgNames == {"crc32c", "md5", "sha1", "sha224", "sha256"}

\* ALG_BYTE of the subclass registered under name a.
ALG_BYTE(a) ==
    CASE a = "crc32c" -> 4
      [] a = "md5"    -> 16
      [] a = "sha1"   -> 20
      [] a = "sha224" -> 28
      [] a = "sha256" -> 32
      [] a = "null"   -> 0

\* Only HashCRC32C overrides prepare() with a setsockopt(ALG_SET_KEY).
Keyed(a) == a = "crc32c"

\* Hash.__subclasses__(), in the order of definition, each class named by
\* its ALG_NAME.
Subclasses == <<"crc32c", "md5", "sha1", "sha224", "sha256">>

\* The same with one more subclass, defined by a user of the module, whose
\* ALG_BYTE is 0 (the ALG_BYTE case "null").
SubclassesWithNull == Append(Subclasses, "null")

\* Hash.algorithm(): d = {}; for c in subclasses: d.update(c.algorithm())
\* (empty: c has no subclasses); d[c.ALG_NAME.decode()] = c.  A class is
\* given by its attributes.
RECURSIVE Algorithm(_)
Algorithm(cs) ==
    IF cs = << >> THEN << >>
    ELSE LET c == cs[Len(cs)]
             d == Algorithm(SubSeq(cs, 1, Len(cs) - 1))
         IN  [n \in (DOMAIN d) \cup {c} |->
                 IF n = c THEN [ALG_NAME |-> c, ALG_BYTE |-> ALG_BYTE(c),
                                keyed |-> Keyed(c)]
                 ELSE d[n]]

\* A key of zero bytes.
KeyBytesZero(a) == [j \in 1..ALG_BYTE(a) |-> 0]

\* The key HashCRC32C.prepare sets: b'\xff' * cls.ALG_BYTE.
KeyBytes(a) == [j \in 1..ALG_BYTE(a) |-> 255]

\* ---------------------------------------------------------------- helpers
Min(a, b) == IF a < b THEN a ELSE b

RECURSIVE SeqsUpTo(_)
SeqsUpTo(n) ==
    IF n = 0 THEN {<< >>}
    ELSE LET S == SeqsUpTo(n - 1)
         IN  S \cup {Append(s, b) : s \in {t \in S : Len(t) = n - 1}, b \in Byte}

Contents == SeqsUpTo(MaxFileLen)

RECURSIVE FileLists(_)
FileLists(n) ==
    IF n = 0 THEN {<< >>}
    ELSE LET S == FileLists(n - 1)
         IN  S \cup {Append(s, c) : s \in {t \in S : Len(t) = n - 1}, c \in Contents}

\* The lowest descriptor number that is not open (POSIX allocation).
\* Descriptors 0, 1 and 2 are the standard streams.
LowestFree(open) == CHOOSE n \in 3..(3 + Cardinality(open)) :
                        /\ n \notin open
                        /\ \A m \in 3..(n - 1) : m \in open

\* ------------------------------------------------- the kernel's transform
\* An injective code of a message over Byte: a leading 1 and its bits.
RECURSIVE Code(_)
Code(msg) ==
    IF msg = << >> THEN 1
    ELSE 2 * Code(SubSeq(msg, 1, Len(msg) - 1)) + msg[Len(msg)]

\* The digest the transform of algorithm a delivers for message msg:
\* ALG_BYTE(a) bytes, different for different messages, and for the keyed
\* transform dependent on the key (the 0xFF seed).
Transform(a, msg) ==
    [j \in 1..ALG_BYTE(a) |->
        (Code(msg) * 7 + j + (IF Keyed(a) THEN 255 ELSE 0)) % 256]

VARIABLES
    files,      \* args.files: the content of each file argument
    alg,        \* args.algorithm
    classes,    \* the subclasses of Hash that are defined
    wlock,      \* index of the file another process holds LOCK_EX on (0: none)
    other,      \* the locals of a second thread using the same Hash object
    pc,         \* position of the run
    err,        \* the exception in flight ("none" when there is none)
    openFds,    \* descriptors open in the process
    sockFd,     \* descriptor of the transform socket `sock` (-1: not created)
    selfSock,   \* whether the attribute self.sock is set
    sockCloses, \* number of sock.close() calls
    nBind,      \* number of bind calls
    nSetKey,    \* number of setsockopt(ALG_SET_KEY) calls
    sockKey,    \* the key set on the transform socket (<< >>: none)
    rejected,   \* whether an accept on the transform socket was rejected
    fileno,     \* Hash.open's local `fileno` (-2: not yet assigned)
    nAccept,    \* number of successful accepts
    nSessClose, \* number of os.close() calls on a session descriptor
    usedBy,     \* pairs <<session descriptor, file index>>: digest() calls
    i,          \* index in files of the current path (0 before the loop)
    fp,         \* descriptor of the open file (-1: none)
    locked,     \* whether the shared flock is held on fp
    fpos,       \* read position of fp
    size,       \* digest()'s `size`: the length argument, then the byte count
    buff,       \* digest()'s `buff`
    readIssued, \* whether the current digest() call has issued an os.read
    eofSeen,    \* whether a read of the current digest() call returned b''
    xfer,       \* bytes moved into the session by the current digest() call
    sessData,   \* the session's message: input of its current hash operation
    sessOut,    \* the session's undelivered result bytes (<< >>: no result)
    digest,     \* the value digest() returned
    out,        \* the printed lines: <<file index, digest>>
    callNo,     \* number of the digest() call on the current fp
    first       \* the digest returned by the first call on the current fp

vars == <<files, alg, classes, wlock, other, pc, err, openFds, sockFd, selfSock,
          sockCloses, nBind, nSetKey, sockKey, rejected, fileno, nAccept, nSessClose, usedBy, i, fp, locked, fpos,
          size, buff, readIssued, eofSeen, xfer, sessData, sessOut,
          digest, out, callNo, first>>

hashVars == <<sockFd, selfSock, sockCloses, nBind, nSetKey>>
openVars == <<fileno, nAccept, nSessClose>>
fileVars == <<fp, locked, fpos>>
digestVars == <<size, buff, readIssued, eofSeen, xfer, digest>>
kernelVars == <<sessData, sessOut>>
argVars == <<files, alg, classes, wlock, other>>
callVars == <<callNo, first>>

\* The locals of a thread that is about to call open() on the Hash object.
AtOpen ==
    [pc |-> "accept", err |-> "none", fileno |-> -2, i |-> 0, fp |-> -1,
     locked |-> FALSE, fpos |-> 0, size |-> 0, buff |-> << >>,
     readIssued |-> FALSE, eofSeen |-> FALSE, xfer |-> << >>,
     sessData |-> << >>, sessOut |-> << >>, digest |-> << >>,
     callNo |-> 0, first |-> << >>]

\* The state when Hash.instance is called, but for the arguments.
InitRest ==
    /\ pc = "instance"
    /\ wlock = 0
    /\ other = AtOpen
    /\ err = "none"
    /\ openFds = {}
    /\ sockFd = -1
    /\ selfSock = FALSE
    /\ sockCloses = 0
    /\ nBind = 0
    /\ nSetKey = 0
    /\ sockKey = << >>
    /\ rejected = FALSE
    /\ fileno = -2
    /\ nAccept = 0
    /\ nSessClose = 0
    /\ usedBy = {}
    /\ i = 0
    /\ fp = -1
    /\ locked = FALSE
    /\ fpos = 0
    /\ size = 0
    /\ buff = << >>
    /\ readIssued = FALSE
    /\ eofSeen = FALSE
    /\ xfer = << >>
    /\ sessData = << >>
    /\ sessOut = << >>
    /\ digest = << >>
    /\ out = << >>
    /\ callNo = 0
    /\ first = << >>

\* main(): the subclasses are those of the module and argparse admits only
\* the names of Hash.algorithm() (choices=digs).
Init ==
    /\ files \in FileLists(MaxFiles)
    /\ classes = Subclasses
    /\ alg \in DOMAIN Algorithm(classes)
    /\ InitRest

\* A Hash object of the keyed algorithm, to be used by two threads.
InitTwo ==
    /\ files \in FileLists(MaxFiles)
    /\ classes = Subclasses
    /\ alg = "crc32c"
    /\ InitRest

\* Hash.instance(name) called by a user of the module: any name, registered
\* or not, with or without a subclass of digest size 0 defined.
InitLib ==
    /\ files \in FileLists(MaxFiles)
    /\ classes \in {Subclasses, SubclassesWithNull}
    /\ alg \in AlgNames \cup {"null", "sha512"}
    /\ InitRest

\* ------------------------------------------------------------ Hash.instance
\* The class of the exception that the failure of a step raises: KeyError
\* for the lookup, OSError(errno, strerror) for every rejection by the OS.
RaisedKindAllOS(e) == "OSError"

RaisedKind(e) == IF e = "lookup" THEN "KeyError" ELSE "OSError"

\* An instance() that creates the socket before it looks the name up.
InstanceSocketFirst ==
    /\ pc = "instance"
    /\ sockFd' = LowestFree(openFds)
    /\ openFds' = openFds \cup {LowestFree(openFds)}
    /\ IF alg \in DOMAIN Algorithm(classes)
         THEN /\ pc' = "bind"
              /\ err' = err
         ELSE /\ pc' = "done"
              /\ err' = "lookup"
    /\ UNCHANGED <<argVars, sockKey, rejected, selfSock, sockCloses, nBind,
                   nSetKey, openVars, usedBy, i, fileVars, digestVars,
                   kernelVars, out, callVars>>

\* An instance() that refuses a class whose digest size is 0.
InstanceValidating ==
    /\ pc = "instance"
    /\ IF alg \in DOMAIN Algorithm(classes) /\ ALG_BYTE(alg) > 0
         THEN /\ pc' = "socket"
              /\ err' = err
         ELSE /\ pc' = "done"
              /\ err' = "lookup"
    /\ UNCHANGED <<argVars, sockKey, rejected, openFds, hashVars, openVars,
                   usedBy, i, fileVars, digestVars, kernelVars, out, callVars>>

\* cls.algorithm()[name](): the lookup of an unregistered name raises
\* KeyError before any class is instantiated.
Instance ==
    /\ pc = "instance"
    /\ IF alg \in DOMAIN Algorithm(classes)
         THEN /\ pc' = "socket"
              /\ err' = err
         ELSE /\ pc' = "done"
              /\ err' = "lookup"
    /\ UNCHANGED <<argVars, sockKey, rejected, openFds, hashVars, openVars,
                   usedBy, i, fileVars, digestVars, kernelVars, out, callVars>>


\* ------------------------------------------------------------ Hash.__init__
\* sock.close() on the transform socket.
SockClose ==
    /\ openFds' = openFds \ {sockFd}
    /\ sockCloses' = sockCloses + 1

\* An error of __init__ that is recorded and then ignored.
InitRaiseSwallowed(e) ==
    /\ err' = e
    /\ pc' = "accept"

\* An error raised by __init__ reaches the caller; the half-built object is
\* then finalised (__del__).
InitRaise(e) ==
    /\ err' = e
    /\ pc' = "del"

\* socket.socket(AF_ALG, SOCK_SEQPACKET, 0)
SocketCreate ==
    /\ pc = "socket"
    /\ \/ /\ sockFd' = LowestFree(openFds)
          /\ openFds' = openFds \cup {LowestFree(openFds)}
          /\ pc' = "bind"
          /\ err' = err
       \/ /\ InitRaise("socket")
          /\ UNCHANGED <<sockFd, openFds>>
    /\ UNCHANGED <<argVars, sockKey, rejected, selfSock, sockCloses, nBind, nSetKey, openVars,
                   usedBy, i, fileVars, digestVars, kernelVars, out, callVars>>

\* _libc.bind(...); a rejected bind closes the socket and raises.
Bind ==
    /\ pc = "bind"
    /\ nBind' = nBind + 1
    /\ \/ /\ pc' = "prepare"
          /\ UNCHANGED <<err, openFds, sockCloses>>
       \/ /\ SockClose
          /\ InitRaise("bind")
    /\ UNCHANGED <<argVars, sockKey, rejected, sockFd, selfSock, nSetKey, openVars, usedBy, i,
                   fileVars, digestVars, kernelVars, out, callVars>>

\* The prepare of the base class used for every algorithm: no key is set.
PrepareBase ==
    /\ pc = "prepare"
    /\ selfSock' = TRUE
    /\ pc' = "accept"
    /\ UNCHANGED <<argVars, rejected, sockFd, nBind, openVars, usedBy, i,
                   fileVars, digestVars, kernelVars, out, callVars, err,
                   openFds, sockCloses, nSetKey, sockKey>>

\* self.sock = self.prepare(sock): Hash.prepare returns the socket as it is,
\* HashCRC32C.prepare sets the key first and, when the key is rejected,
\* closes the socket and raises before self.sock is assigned.
Prepare ==
    /\ pc = "prepare"
    /\ \/ /\ ~Keyed(alg)
          /\ selfSock' = TRUE
          /\ pc' = "accept"
          /\ UNCHANGED <<err, openFds, sockCloses, nSetKey, sockKey>>
       \/ /\ Keyed(alg)
          /\ nSetKey' = nSetKey + 1
          /\ \/ /\ sockKey' = KeyBytes(alg)
                /\ selfSock' = TRUE
                /\ pc' = "accept"
                /\ UNCHANGED <<err, openFds, sockCloses>>
             \/ /\ SockClose
                /\ InitRaise("setkey")
                /\ UNCHANGED <<selfSock, sockKey>>
    /\ UNCHANGED <<argVars, rejected, sockFd, nBind, openVars, usedBy, i, fileVars,
                   digestVars, kernelVars, out, callVars>>

\* Hash.__del__, without the test of the attribute.
DelUnguarded ==
    /\ pc = "del"
    /\ IF sockFd >= 0
         THEN SockClose
         ELSE UNCHANGED <<openFds, sockCloses>>
    /\ pc' = "done"
    /\ UNCHANGED <<argVars, sockKey, rejected, err, sockFd, selfSock, nBind, nSetKey, openVars,
                   usedBy, i, fileVars, digestVars, kernelVars, out, callVars>>

\* Hash.__del__: closes self.sock when the attribute is set.
Del ==
    /\ pc = "del"
    /\ IF selfSock
         THEN SockClose
         ELSE UNCHANGED <<openFds, sockCloses>>
    /\ pc' = "done"
    /\ UNCHANGED <<argVars, sockKey, rejected, err, sockFd, selfSock, nBind, nSetKey, openVars,
                   usedBy, i, fileVars, digestVars, kernelVars, out, callVars>>

\* ---------------------------------------------------------------- Hash.open
\* An accept that gives up the listening socket once it has a session.
AcceptClosesListener ==
    /\ pc = "accept"
    /\ \/ /\ fileno' = LowestFree(openFds)
          /\ openFds' = (openFds \cup {LowestFree(openFds)}) \ {sockFd}
          /\ nAccept' = nAccept + 1
          /\ sessData' = << >>
          /\ sessOut' = << >>
          /\ pc' = "loop"
          /\ err' = err
          /\ rejected' = rejected
       \/ /\ fileno' = -1
          /\ err' = "accept"
          /\ pc' = "finally"
          /\ rejected' = TRUE
          /\ UNCHANGED <<openFds, nAccept, kernelVars>>
    /\ UNCHANGED <<argVars, sockKey, hashVars, nSessClose, usedBy, i, fileVars,
                   digestVars, out, callVars>>

\* An accept that closes the transform socket when it is rejected.
AcceptRejectClosesSocket ==
    /\ pc = "accept"
    /\ \/ /\ fileno' = LowestFree(openFds)
          /\ openFds' = openFds \cup {LowestFree(openFds)}
          /\ nAccept' = nAccept + 1
          /\ sessData' = << >>
          /\ sessOut' = << >>
          /\ pc' = "loop"
          /\ err' = err
          /\ rejected' = rejected
       \/ /\ fileno' = -1
          /\ err' = "accept"
          /\ pc' = "finally"
          /\ rejected' = TRUE
          /\ openFds' = openFds \ {sockFd}
          /\ UNCHANGED <<nAccept, kernelVars>>
    /\ UNCHANGED <<argVars, sockKey, hashVars, nSessClose, usedBy, i, fileVars,
                   digestVars, out, callVars>>

\* _libc.accept(self.sock.fileno(), None, None): a new descriptor with a
\* fresh hash context, or -1 and an OSError raised inside the try.
Accept ==
    /\ pc = "accept"
    /\ \/ /\ fileno' = LowestFree(openFds)
          /\ openFds' = openFds \cup {LowestFree(openFds)}
          /\ nAccept' = nAccept + 1
          /\ sessData' = << >>
          /\ sessOut' = << >>
          /\ pc' = "loop"
          /\ err' = err
          /\ rejected' = rejected
       \/ /\ fileno' = -1
          /\ err' = "accept"
          /\ pc' = "finally"
          /\ rejected' = TRUE
          /\ UNCHANGED <<openFds, nAccept, kernelVars>>
    /\ UNCHANGED <<argVars, sockKey, hashVars, nSessClose, usedBy, i, fileVars,
                   digestVars, out, callVars>>

\* The exit of Hash.open's scope with the close left out of the error path.
SessionExitOnSuccessOnly ==
    /\ pc = "finally"
    /\ IF fileno >= 0 /\ err = "none"
         THEN /\ openFds' = openFds \ {fileno}
              /\ nSessClose' = nSessClose + 1
         ELSE UNCHANGED <<openFds, nSessClose>>
    /\ pc' = "del"
    /\ UNCHANGED <<argVars, sockKey, rejected, err, hashVars, fileno, nAccept, usedBy, i,
                   fileVars, digestVars, kernelVars, out, callVars>>

\* finally: if fileno >= 0: os.close(fileno).  The generator then ends and
\* the Hash object it referenced is finalised.
SessionExit ==
    /\ pc = "finally"
    /\ IF fileno >= 0
         THEN /\ openFds' = openFds \ {fileno}
              /\ nSessClose' = nSessClose + 1
         ELSE UNCHANGED <<openFds, nSessClose>>
    /\ pc' = "del"
    /\ UNCHANGED <<argVars, sockKey, rejected, err, hashVars, fileno, nAccept, usedBy, i,
                   fileVars, digestVars, kernelVars, out, callVars>>

\* --------------------------------------------------------------------- main
\* An exception that ends the current file only: the loop goes on.
RaiseContinue(e) ==
    /\ err' = e
    /\ openFds' = openFds \ {fp}
    /\ fp' = -1
    /\ locked' = FALSE
    /\ pc' = "loop"

\* An exception leaving the body of `with open(path) as fp`: fp is closed
\* (which drops its lock) and the exception enters Hash.open's finally.
Raise(e) ==
    /\ err' = e
    /\ openFds' = openFds \ {fp}
    /\ fp' = -1
    /\ locked' = FALSE
    /\ pc' = "finally"

\* for path in args.files
LoopHead ==
    /\ pc = "loop"
    /\ IF i < Len(files)
         THEN /\ i' = i + 1
              /\ pc' = "fopen"
         ELSE /\ i' = i
              /\ pc' = "finally"
    /\ UNCHANGED <<argVars, sockKey, rejected, err, openFds, hashVars, openVars, usedBy,
                   fileVars, digestVars, kernelVars, out, callVars>>

\* open(path)
FileOpen ==
    /\ pc = "fopen"
    /\ \/ /\ fp' = LowestFree(openFds)
          /\ openFds' = openFds \cup {LowestFree(openFds)}
          /\ fpos' = 0
          /\ pc' = "flock"
          /\ err' = err
       \/ /\ err' = "open"
          /\ pc' = "finally"
          /\ UNCHANGED <<fp, openFds, fpos>>
    /\ UNCHANGED <<argVars, sockKey, rejected, hashVars, openVars, usedBy, i, locked,
                   digestVars, kernelVars, out, callVars>>

\* fcntl.flock(fileno, fcntl.LOCK_SH)
Flock ==
    /\ pc = "flock"
    /\ \/ /\ wlock # i
          /\ locked' = TRUE
          /\ pc' = "fstat"
          /\ UNCHANGED <<err, openFds, fp>>
       \/ Raise("flock")
    /\ UNCHANGED <<argVars, sockKey, rejected, hashVars, openVars, usedBy, i, fpos,
                   digestVars, kernelVars, out, callVars>>

\* Entry of HashDescriptor.digest(fileno, size) on the session descriptor.
DigestCall(len) ==
    /\ size' = len
    /\ usedBy' = usedBy \cup {<<fileno, i>>}
    /\ readIssued' = FALSE
    /\ eofSeen' = FALSE
    /\ xfer' = << >>
    /\ pc' = "sendfile"

\* desc.digest(fileno, os.fstat(fileno).st_size): the call
Fstat ==
    /\ pc = "fstat"
    /\ DigestCall(Len(files[i]))
    /\ callNo' = 1
    /\ UNCHANGED <<argVars, sockKey, rejected, err, openFds, hashVars, openVars, i, fileVars,
                   buff, digest, kernelVars, out, first>>

\* print(...) and the exit of `with open(path)`, which closes fp.
PrintLine ==
    /\ pc = "print"
    /\ out' = Append(out, <<i, digest>>)
    /\ openFds' = openFds \ {fp}
    /\ fp' = -1
    /\ locked' = FALSE
    /\ pc' = "loop"
    /\ UNCHANGED <<argVars, sockKey, rejected, err, hashVars, openVars, usedBy, i, fpos,
                   digestVars, kernelVars, callVars>>

\* ------------------------------------------------- HashDescriptor.digest
\* The byte counts one successful sendfile call may move when `avail` bytes
\* are asked for and present: all of them or, on a short transfer, fewer.
SendCount(avail) == IF avail = 0 THEN {0} ELSE 1..avail

\* The session takes `bytes` as the whole input of a new hash operation
\* (the last page of a sendfile carries no MSG_MORE, so the operation is
\* finalised and the next transfer starts a new one).
KernelSend(bytes) ==
    IF bytes = << >>
      THEN UNCHANGED kernelVars
      ELSE /\ sessData' = bytes
           /\ sessOut' = Transform(alg, bytes)

\* What the session has to deliver to a read: the pending result, or the
\* digest of the empty message when no result is pending.
KernelResult == IF sessOut = << >> THEN Transform(alg, << >>) ELSE sessOut

\* os.sendfile(self.fileno, fileno, None, size): one call, from the input's
\* current position, which it advances; its return value is not used.
Sendfile ==
    /\ pc = "sendfile"
    /\ \/ \E n \in SendCount(Min(size, Len(files[i]) - fpos)) :
             LET bytes == SubSeq(files[i], fpos + 1, fpos + n)
             IN  /\ fpos' = fpos + n
                 /\ xfer' = xfer \o bytes
                 /\ KernelSend(bytes)
                 /\ pc' = "lseek"
                 /\ UNCHANGED <<err, openFds, fp, locked>>
       \/ /\ Raise("sendfile")
          /\ UNCHANGED <<fpos, xfer, kernelVars>>
    /\ UNCHANGED <<argVars, sockKey, rejected, hashVars, openVars, usedBy, i, size, buff,
                   readIssued, eofSeen, digest, out, callVars>>

\* digest() with the os.lseek call left out.
LseekMissing ==
    /\ pc = "lseek"
    /\ buff' = << >>
    /\ size' = 0
    /\ pc' = "read"
    /\ UNCHANGED <<argVars, sockKey, rejected, err, openFds, hashVars, openVars, usedBy, i,
                   fileVars, readIssued, eofSeen, xfer, digest,
                   kernelVars, out, callVars>>

\* os.lseek(fileno, 0, os.SEEK_SET); buff = b''; size = 0
Lseek ==
    /\ pc = "lseek"
    /\ \/ /\ fpos' = 0
          /\ buff' = << >>
          /\ size' = 0
          /\ pc' = "read"
          /\ UNCHANGED <<err, openFds, fp, locked>>
       \/ /\ Raise("lseek")
          /\ UNCHANGED <<fpos, buff, size>>
    /\ UNCHANGED <<argVars, sockKey, rejected, hashVars, openVars, usedBy, i, readIssued,
                   eofSeen, xfer, digest, kernelVars, out, callVars>>

\* The length asked when the bytes already read are not subtracted.
ReadLenWhole(digestsize, sz) == digestsize

\* The length asked of os.read: self.digestsize - size.
ReadLen(digestsize, sz) == digestsize - sz

\* A chunk put in front of the buffer instead of behind it.
AccumulateFront(b0, b) == b \o b0

\* buff += b
Accumulate(b0, b) == b0 \o b

\* A read loop that sends the input again when a read returns nothing.
DigestReadResending ==
    /\ pc = "read"
    /\ size < ALG_BYTE(alg)
    /\ readIssued' = TRUE
    /\ \/ \E k \in 1..Min(ReadLen(ALG_BYTE(alg), size), Len(KernelResult)) :
             LET b == SubSeq(KernelResult, 1, k)
             IN  /\ size' = size + Len(b)
                 /\ buff' = Accumulate(buff, b)
                 /\ sessOut' = SubSeq(KernelResult, k + 1, Len(KernelResult))
                 /\ sessData' = IF sessOut = << >> THEN << >> ELSE sessData
                 /\ pc' = "read"
                 /\ UNCHANGED <<err, openFds, fp, locked, eofSeen, fpos, xfer>>
       \/ /\ eofSeen' = TRUE
          /\ pc' = "read"
          /\ fpos' = Len(files[i])
          /\ xfer' = xfer \o SubSeq(files[i], fpos + 1, Len(files[i]))
          /\ KernelSend(SubSeq(files[i], fpos + 1, Len(files[i])))
          /\ UNCHANGED <<size, buff, err, openFds, fp, locked>>
       \/ /\ Raise("read")
          /\ UNCHANGED <<size, buff, kernelVars, eofSeen, fpos, xfer>>
    /\ UNCHANGED <<argVars, sockKey, rejected, hashVars, openVars, usedBy, i, digest, out,
                   callVars>>

\* One iteration of `while size < self.digestsize`: os.read returns between
\* 1 and the asked number of bytes, or b'' (end of stream), or raises.
DigestRead ==
    /\ pc = "read"
    /\ size < ALG_BYTE(alg)
    /\ readIssued' = TRUE
    /\ \/ \E k \in 1..Min(ReadLen(ALG_BYTE(alg), size), Len(KernelResult)) :
             LET b == SubSeq(KernelResult, 1, k)
             IN  /\ size' = size + Len(b)
                 /\ buff' = Accumulate(buff, b)
                 /\ sessOut' = SubSeq(KernelResult, k + 1, Len(KernelResult))
                 /\ sessData' = IF sessOut = << >> THEN << >> ELSE sessData
                 /\ pc' = "read"
                 /\ UNCHANGED <<err, openFds, fp, locked, eofSeen>>
       \/ /\ eofSeen' = TRUE
          /\ pc' = "read"
          /\ UNCHANGED <<size, buff, kernelVars, err, openFds, fp, locked>>
       \/ /\ Raise("read")
          /\ UNCHANGED <<size, buff, kernelVars, eofSeen>>
    /\ UNCHANGED <<argVars, sockKey, rejected, hashVars, openVars, usedBy, i, fpos, xfer,
                   digest, out, callVars>>

\* The loop ends when size >= self.digestsize: return buff
DigestReturn ==
    /\ pc = "read"
    /\ size >= ALG_BYTE(alg)
    /\ digest' = buff
    /\ pc' = "print"
    /\ UNCHANGED <<argVars, sockKey, rejected, err, openFds, hashVars, openVars, usedBy, i,
                   fileVars, size, buff, readIssued, eofSeen, xfer,
                   kernelVars, out, callVars>>

\* A second digest() call on the same input descriptor, with the same
\* length, on the same session (the caller re-reads the file).
Redigest ==
    /\ pc = "print"
    /\ callNo = 1
    /\ first' = digest
    /\ callNo' = 2
    /\ DigestCall(Len(files[i]))
    /\ UNCHANGED <<argVars, sockKey, rejected, err, openFds, hashVars, openVars, i, fileVars,
                   buff, digest, kernelVars, out>>

\* The caller has caught the error of a rejected accept and calls
\* Hash.open() again on the same object.
Reopen ==
    /\ pc = "del"
    /\ err = "accept"
    /\ err' = "none"
    /\ fileno' = -2
    /\ pc' = "accept"
    /\ UNCHANGED <<argVars, sockKey, rejected, openFds, hashVars, nAccept,
                   nSessClose, usedBy, i, fileVars, digestVars, kernelVars,
                   out, callVars>>

\* ------------------------------------------------------ a concurrent writer
\* Another process that modifies the file main() is at, and only while it
\* holds the exclusive advisory lock: flock(LOCK_EX) is granted when main()
\* does not hold its shared lock on that file.
WriterLock ==
    /\ wlock = 0
    /\ i \in 1..Len(files)
    /\ ~locked
    /\ wlock' = i
    /\ UNCHANGED <<files, alg, classes, other, pc, err, openFds, hashVars, sockKey,
                   rejected, openVars, usedBy, i, fileVars, digestVars,
                   kernelVars, out, callVars>>

WriterWrite ==
    /\ wlock # 0
    /\ \E c \in Contents \ {files[wlock]} :
           files' = [files EXCEPT ![wlock] = c]
    /\ UNCHANGED <<alg, classes, wlock, other, pc, err, openFds, hashVars, sockKey,
                   rejected, openVars, usedBy, i, fileVars, digestVars,
                   kernelVars, out, callVars>>

WriterUnlock ==
    /\ wlock # 0
    /\ wlock' = 0
    /\ UNCHANGED <<files, alg, classes, other, pc, err, openFds, hashVars, sockKey,
                   rejected, openVars, usedBy, i, fileVars, digestVars,
                   kernelVars, out, callVars>>

\* ------------------------------------------------- two threads, one Hash
\* The positions of a thread between its call of open() and the end of it.
ThreadSteps == {"accept", "loop", "fopen", "flock", "fstat", "sendfile",
                "lseek", "read", "print", "finally", "del"}

\* The running thread is suspended between two of its steps and the other
\* thread, which uses the same Hash object (and so the same transform
\* socket, in the same process), runs on.  Each thread has its own session
\* (Hash.open's local fileno, with the hash context the kernel made for it)
\* and its own locals of main's loop body and of digest().
Switch ==
    /\ selfSock
    /\ pc \in ThreadSteps
    /\ other.pc # "del"
    /\ other' = [pc |-> pc, err |-> err, fileno |-> fileno, i |-> i,
                 fp |-> fp, locked |-> locked, fpos |-> fpos, size |-> size,
                 buff |-> buff, readIssued |-> readIssued,
                 eofSeen |-> eofSeen, xfer |-> xfer, sessData |-> sessData,
                 sessOut |-> sessOut, digest |-> digest, callNo |-> callNo,
                 first |-> first]
    /\ pc' = other.pc
    /\ err' = other.err
    /\ fileno' = other.fileno
    /\ i' = other.i
    /\ fp' = other.fp
    /\ locked' = other.locked
    /\ fpos' = other.fpos
    /\ size' = other.size
    /\ buff' = other.buff
    /\ readIssued' = other.readIssued
    /\ eofSeen' = other.eofSeen
    /\ xfer' = other.xfer
    /\ sessData' = other.sessData
    /\ sessOut' = other.sessOut
    /\ digest' = other.digest
    /\ callNo' = other.callNo
    /\ first' = other.first
    /\ UNCHANGED <<files, alg, classes, wlock, openFds, hashVars, sockKey,
                   rejected, nAccept, nSessClose, usedBy, out>>

\* The Hash object is held by the caller of both threads: it is finalised
\* when both have left their open() scope.
DelShared ==
    /\ other.pc = "del"
    /\ Del

\* ---------------------------------------------------------- specifications
Next ==
    \/ Instance
    \/ SocketCreate
    \/ Bind
    \/ Prepare
    \/ Accept
    \/ LoopHead
    \/ FileOpen
    \/ Flock
    \/ Fstat
    \/ Sendfile
    \/ Lseek
    \/ DigestRead
    \/ DigestReturn
    \/ PrintLine
    \/ SessionExit
    \/ Del

\* One run of main().
Spec == Init /\ [][Next]_vars

NextReread == Next \/ Redigest

\* A run in which the caller may call digest() a second time on a file.
SpecReread == Init /\ [][NextReread]_vars

\* Hash.instance(name) and the use of the object, as main() uses it, for
\* any name and with a subclass of digest size 0 possibly defined.
SpecLib == InitLib /\ [][Next]_vars

NextReopen == Next \/ Reopen

\* A run in which the caller may open a session again after a rejection.
SpecReopen == Init /\ [][NextReopen]_vars

NextWriter == Next \/ WriterLock \/ WriterWrite \/ WriterUnlock

\* A run of main() beside a writer that honours the advisory lock.
SpecWriter == Init /\ [][NextWriter]_vars

NextTwo ==
    \/ Instance \/ SocketCreate \/ Bind \/ Prepare \/ Accept \/ LoopHead
    \/ FileOpen \/ Flock \/ Fstat \/ Sendfile \/ Lseek \/ DigestRead
    \/ DigestReturn \/ PrintLine \/ SessionExit \/ Switch \/ DelShared

\* Two threads that each run main's `with ... .open() as desc` block on one
\* Hash object, interleaved step by step.
SpecTwo == InitTwo /\ [][NextTwo]_vars

\* ------------------------------------------------------------------ claims
\* The positions of main() inside Hash.open's scope.
InScope == {"loop", "fopen", "flock", "fstat", "sendfile", "lseek", "read",
            "print"}

C2_SessionClosedOnExit ==
    /\ nSessClose <= nAccept
    /\ (pc \in InScope) => (fileno \in openFds /\ nSessClose = 0)
    /\ (fileno < 0) => (nSessClose = 0 /\ nAccept = 0)
    /\ (pc \in {"del", "done"}) =>
           /\ nSessClose = nAccept
           /\ fileno >= 0 => fileno \notin openFds
           /\ fp = -1

\* C2 witness: the scope was left by an error of a digest read and the
\* session was closed.
C2_Witness ==
    /\ pc = "del"
    /\ err = "read"
    /\ nAccept = 1
    /\ nSessClose = 1

\* C3 as stated: once a read has returned end-of-stream before digest_size
\* bytes were accumulated, digest() has failed with an error (it does not go
\* on reading).
C3_EofFails == eofSeen => (err = "read" /\ pc \notin {"read", "print"})

\* C4: in the read loop the count equals the length of the buffer and never
\* exceeds digest_size, no read asks for more than the bytes still missing,
\* the buffer is the chunks in the order the session delivered them, and the
\* value returned is exactly digest_size bytes: the session's whole result.
C4_ReadLoop ==
    /\ (pc = "read") =>
           /\ size = Len(buff)
           /\ size <= ALG_BYTE(alg)
           /\ size < ALG_BYTE(alg) =>
                  /\ ReadLen(ALG_BYTE(alg), size) >= 1
                  /\ ReadLen(ALG_BYTE(alg), size) <= ALG_BYTE(alg) - Len(buff)
           /\ size > 0 => buff \o sessOut = Transform(alg, sessData)
    /\ (pc = "print") =>
           /\ Len(digest) = ALG_BYTE(alg)
           /\ digest = Transform(alg, sessData)

\* C4 witness: a short read has happened and the loop goes on.
C4_Witness ==
    /\ pc = "read"
    /\ size > 0
    /\ size < ALG_BYTE(alg)
    /\ eofSeen = FALSE

\* C5 as stated: when the first digest read is issued, exactly the `size`
\* bytes of the input (all of it, in order) have been moved into the session.
C5_FullTransfer == (pc = "read") => (xfer = files[i])

\* C6: no read on the session before the transfer has returned; after the
\* first read nothing more is moved into the session until digest() returns;
\* when the transfer raises, no read was issued.
C6_TransferBeforeRead ==
    /\ [](/\ (pc \in {"sendfile", "lseek"}) => ~readIssued
          /\ (err \in {"sendfile", "lseek"}) => ~readIssued)
    /\ [][(readIssued /\ readIssued') =>
              (xfer' = xfer /\ fpos' = fpos)]_vars

\* C6 witness: reads are under way on a session that holds transferred input.
C6_Witness ==
    /\ pc = "read"
    /\ readIssued
    /\ xfer # << >>
    /\ eofSeen

\* C7: the input's read position is 0 from the first digest read to the
\* return of digest(); the transfer had moved it before the reset.
C7_PositionRestored ==
    /\ (pc \in {"read", "print"}) => fpos = 0
    /\ (pc = "lseek") => fpos = Len(xfer)

\* C7 witness: digest() returned after a transfer that had moved the position.
C7_Witness ==
    /\ pc = "print"
    /\ xfer # << >>
    /\ fpos = 0

\* C8 as stated: a second successful digest() on the same descriptor, with
\* the same length and on the same session, returns the bytes of the first.
C8_RereadSame == (pc = "print" /\ callNo = 2) => (digest = first)

\* C9 as stated: files with identical bytes get identical printed digests,
\* whatever was hashed before them in the run.
C9_SameBytesSameDigest ==
    \A p \in 1..Len(out) : \A q \in 1..Len(out) :
        files[out[p][1]] = files[out[q][1]] => out[p][2] = out[q][2]

\* C10: the transform socket is closed exactly once on every path; after a
\* rejected bind or key it is closed when the error reaches the caller, the
\* object holds no socket, and teardown does not close it again.
C10_SocketClosedOnce ==
    /\ sockCloses <= 1
    /\ (sockFd = -1) => sockCloses = 0
    /\ (err \in {"bind", "setkey"}) =>
           (sockCloses = 1 /\ sockFd \notin openFds /\ ~selfSock)
    /\ (pc = "done" /\ sockFd >= 0) => (sockCloses = 1 /\ sockFd \notin openFds)
    /\ (pc = "done") => openFds = {}

\* C10 witness: the run ended after the key was rejected.
C10_Witness ==
    /\ pc = "done"
    /\ err = "setkey"
    /\ sockCloses = 1

\* The steps whose rejection by the OS raises OSError.
OSSteps == {"bind", "setkey", "accept", "read"}

\* Whether the name asked for is in the catalog.
Registered == alg \in DOMAIN Algorithm(classes)

\* C11: bind is performed once and, for the keyed algorithm, the key is set
\* once, after the successful bind and before any accept; no accept is
\* issued on a socket whose bind or keying failed; files and sessions do not
\* repeat bind or keying.
C11_BindAndKeyOnce ==
    /\ nBind <= 1
    /\ nSetKey <= 1
    /\ (nSetKey = 1) => (nBind = 1 /\ Keyed(alg) /\ err # "bind")
    /\ (fileno # -2) =>
           /\ nBind = 1
           /\ selfSock
           /\ err \notin {"socket", "bind", "setkey"}
           /\ nSetKey = (IF Keyed(alg) THEN 1 ELSE 0)
           /\ sockKey = (IF Keyed(alg) THEN KeyBytes(alg) ELSE << >>)
    /\ (err \in {"socket", "bind", "setkey"}) => (fileno = -2 /\ nAccept = 0)
    /\ (pc = "done" /\ err = "none") =>
           (nBind = 1 /\ nSetKey = (IF Keyed(alg) THEN 1 ELSE 0))

\* C11 witness: a keyed run over two files is complete; one bind, one key.
C11_Witness ==
    /\ pc = "done"
    /\ err = "none"
    /\ Keyed(alg)
    /\ Len(out) = 2
    /\ nBind = 1
    /\ nSetKey = 1

\* C12: Hash.instance(name) with a name that is not in the catalog fails
\* with an error and no socket is created, bound, keyed, accepted on or
\* closed.
C12_UnknownNameNoSocket ==
    /\ (~Registered /\ pc # "instance") => (pc = "done" /\ err = "lookup")
    /\ (err = "lookup") =>
           /\ ~Registered
           /\ sockFd = -1
           /\ openFds = {}
           /\ nBind = 0
           /\ nSetKey = 0
           /\ nAccept = 0
           /\ fileno = -2
           /\ sockCloses = 0
           /\ nSessClose = 0

\* C12 witness: the lookup of an unregistered name has failed.
C12_Witness ==
    /\ pc = "done"
    /\ err = "lookup"
    /\ alg = "sha512"

\* C13: a rejected accept raises and leaves the transform socket open, bound
\* and keyed as it was; a later Hash.open() on the same object can succeed
\* and its session delivers the digest.
C13_RejectedAcceptKeepsSocket ==
    /\ (err = "accept") =>
           /\ pc \in {"finally", "del"} =>
                  /\ sockFd \in openFds
                  /\ sockCloses = 0
           /\ selfSock
           /\ fileno = -1
           /\ nSessClose = 0
           /\ nBind = 1
           /\ nSetKey = (IF Keyed(alg) THEN 1 ELSE 0)
           /\ sockKey = (IF Keyed(alg) THEN KeyBytes(alg) ELSE << >>)
    /\ (rejected /\ pc \in InScope) =>
           (sockFd \in openFds /\ fileno \in openFds /\ nBind = 1)
    /\ (rejected /\ pc = "print") => digest = Transform(alg, sessData)

\* C13 witness: after a rejected accept a later open() succeeded and its
\* session returned a digest.
C13_Witness ==
    /\ rejected
    /\ pc = "print"
    /\ err = "none"
    /\ Len(digest) = ALG_BYTE(alg)

C15_InitFailureStops ==
    (err \in {"bind", "setkey"}) =>
        /\ pc \in {"del", "done"}
        /\ nBind = 1
        /\ nSetKey = (IF err = "setkey" THEN 1 ELSE 0)
        /\ fileno = -2
        /\ nAccept = 0
        /\ i = 0
        /\ fp = -1
        /\ ~locked
        /\ usedBy = {}
        /\ xfer = << >>
        /\ ~readIssued
        /\ out = << >>
        /\ openFds = {}

\* C15 witness: a run with files to process has ended on a rejected bind.
C15_Witness ==
    /\ pc = "done"
    /\ err = "bind"
    /\ Len(files) = 2

C17_Catalog ==
    LET d == Algorithm(classes)
    IN  /\ DOMAIN d = {"crc32c", "md5", "sha1", "sha224", "sha256"}
        /\ d["crc32c"].ALG_BYTE = 4
        /\ d["md5"].ALG_BYTE = 16
        /\ d["sha1"].ALG_BYTE = 20
        /\ d["sha224"].ALG_BYTE = 28
        /\ d["sha256"].ALG_BYTE = 32
        /\ \A n \in DOMAIN d :
               /\ d[n].ALG_BYTE > 0
               /\ d[n].ALG_NAME = n
               /\ d[n].keyed <=> (n = "crc32c")
        /\ (nSetKey > 0) => alg = "crc32c"
        /\ (sockKey # << >>) =>
               /\ Len(sockKey) = d[alg].ALG_BYTE
               /\ \A j \in 1..Len(sockKey) : sockKey[j] = 255

\* C17 witness: the key of crc32c has been set.
C17_Witness ==
    /\ alg = "crc32c"
    /\ sockKey = <<255, 255, 255, 255>>
    /\ pc = "accept"

\* C20: the printed lines are, in order, the lines of a prefix of the
\* argument list, one per file; after a failure nothing more is printed and
\* the lines printed before stand; the run ends with the session closed.
C20_PrintedPrefix ==
    /\ [](/\ Len(out) <= Len(files)
          /\ \A k \in 1..Len(out) : out[k][1] = k
          /\ (err # "none") => Len(out) = (IF i = 0 THEN 0 ELSE i - 1)
          /\ (pc = "done" /\ err = "none") => Len(out) = Len(files)
          /\ (pc = "done" /\ fileno >= 0) => fileno \notin openFds)
    /\ [][/\ out' = out \/ out' = Append(out, <<i, digest>>)
          /\ (err # "none") => (out' = out /\ err' = err)]_vars

\* C20 witness: the second file failed after the first line was printed.
C20_Witness ==
    /\ pc = "done"
    /\ err = "read"
    /\ Len(files) = 2
    /\ Len(out) = 1

\* The lock of main() on the current file: taken before the size is read and
\* before any byte is moved, kept (the file open) until digest() has
\* returned, and excluding the writer's lock for that time.
LockHeldForDigest ==
    (pc \in {"fstat", "sendfile", "lseek", "read", "print"}) =>
        (locked /\ fp \in openFds /\ wlock # i)

\* C19 as stated: the lock is held from before the size is read until the
\* digest is read; so, beside a writer that honours the lock, the length
\* passed to digest() is the file's length during the transfer and the bytes
\* hashed are the file's content.
C19_LockedSnapshot ==
    /\ LockHeldForDigest
    /\ (pc \in {"sendfile", "lseek"}) => size = Len(files[i])
    /\ (pc \in {"read", "print"}) => xfer = files[i]

\* A thread's session is alive from its accept to the close in the finally.
Alive(p, fd) ==
    /\ p \in ThreadSteps \ {"accept", "del"}
    /\ fd >= 0

\* C18 as stated: two sessions of one Hash object that are alive together
\* have distinct descriptors; whatever one thread does, the other's session
\* descriptor and the transform socket stay open; and each digest() returns
\* the digest of its own input.
C18_SessionsIndependent ==
    /\ (Alive(pc, fileno) /\ Alive(other.pc, other.fileno)) =>
           fileno # other.fileno
    /\ Alive(pc, fileno) => (fileno \in openFds /\ sockFd \in openFds)
    /\ Alive(other.pc, other.fileno) =>
           (other.fileno \in openFds /\ sockFd \in openFds)
    /\ (pc = "print") => digest = Transform(alg, files[i])
    /\ (other.pc = "print") =>
           other.digest = Transform(alg, files[other.i])

====
